---- MODULE Spec2Model ----
(***************************************************************************)
(* A model of clock.py, the "location clock": MQTT transition events are   *)
(* resolved to a person (Clock.findPerson) and a zone (Locations.getLoc),  *)
(* the person's servo is pointed at the zone's angle (Clock.setLoc) and    *)
(* the result is recorded in a SQLite state file (Clock.saveState), from   *)
(* which the servos are restored at start-up (Clock.setStateFromDB).       *)
(*                                                                         *)
(* Strings the code searches with regular expressions are sequences of     *)
(* one-character strings.  Patterns are the regular expressions made of    *)
(* literal characters and ".", which matches any one character.            *)
(***************************************************************************)
EXTENDS Integers, Sequences, FiniteSets, TLC

VARIABLES
    config,       \* the content of the configuration file
    locations,    \* Clock.locations: the Locations object
    people,       \* Clock.people: a dict, as its items in insertion order
    servos,       \* Clock.servos: channel -> the angle last commanded
    state_db,     \* the SQLite state file
    storeFault,   \* the condition of the state file, set by the environment
    now,          \* time.time()
    proc,         \* the process: "stopped", "running" or "crashed"
    last,         \* the last operation, its input and what it did
    lastHandled,  \* history: channel -> angle of the last event handled
    allPersisted, \* history: every handled event's record was written
    broker,       \* Clock.broker and what the clock knows and asked of it
    inflight      \* the call of onBrokerMessage in progress, if any

vars == <<config, locations, people, servos, state_db, storeFault, now, proc,
          last, lastHandled, allPersisted, broker, inflight>>

----------------------------------------------------------------------------
(* Bounds of the model *)

\* the longest region description of an event
MaxDescLen == 2
\* the largest number of named zones in a configuration
MaxZones == 2
\* the largest number of person sections in a configuration
MaxPeople == 2
\* the largest number of rows of location_history written by direct calls
\* of saveState
MaxRows == 2
\* the largest number of events the handler passes on to saveState
MaxEvents == 2
\* the largest timestamp passed to saveState by a caller that chooses it
MaxStamp == 2

----------------------------------------------------------------------------
(* Python values *)

\* None, where a pattern is expected
NoPattern == <<"None">>
\* a servo's angle before the program has set it
NoAngle == -1
\* None, where a Location is expected
NoLocation == [name |-> "None", pattern |-> NoPattern, angle |-> NoAngle]
\* None, where a Person is expected
NoPerson == [name |-> "None", user |-> <<>>, device |-> <<>>, servo |-> NoAngle]

Min(a, b) == IF a < b THEN a ELSE b

\* the strings over Chars of length at most n
RECURSIVE StringsUpTo(_, _)
StringsUpTo(Chars, n) ==
    IF n = 0 THEN {<<>>}
    ELSE LET shorter == StringsUpTo(Chars, n - 1)
         IN  shorter \cup {Append(s, c) : s \in shorter, c \in Chars}

----------------------------------------------------------------------------
(* re.search *)

\* the pattern matches the text at offset i (1-based): re's matching of a
\* concatenation of literals and "."
MatchHere(pattern, text, i) ==
    /\ i + Len(pattern) - 1 <= Len(text)
    /\ \A k \in 1..Len(pattern) :
          pattern[k] = "." \/ pattern[k] = text[i + k - 1]

\* re.match: the pattern is tried at the start of the text only
re_match(pattern, text) == MatchHere(pattern, text, 1)

\* re.search scans the text from left to right for a place where the
\* pattern matches; the empty pattern matches at the first place
RECURSIVE SearchFrom(_, _, _)
SearchFrom(pattern, text, i) ==
    IF i > Len(text) + 1 THEN FALSE
    ELSE IF MatchHere(pattern, text, i) THEN TRUE
    ELSE SearchFrom(pattern, text, i + 1)

re_search(pattern, text) == SearchFrom(pattern, text, 1)

----------------------------------------------------------------------------
(* class Location *)

Location(name, pattern, angle) ==
    [name |-> name, pattern |-> pattern, angle |-> angle]

\* Location.matches: a Match object is true, None and False are not
matches(loc, region_name) ==
    IF loc.pattern # NoPattern THEN re_search(loc.pattern, region_name)
    ELSE FALSE

----------------------------------------------------------------------------
(* class Locations *)

\* a < b for two strings of digits, as Python compares "location<a>" and
\* "location<b>": character by character, a proper prefix first
LexLess(a, b) ==
    \E k \in 1..(Min(Len(a), Len(b)) + 1) :
        /\ \A j \in 1..(k - 1) : a[j] = b[j]
        /\ \/ k > Len(a) /\ k <= Len(b)
           \/ k <= Len(a) /\ k <= Len(b) /\ a[k] < b[k]

\* list.sort() of a set of distinct keys
RECURSIVE SortKeys(_)
SortKeys(S) ==
    IF S = {} THEN <<>>
    ELSE LET m == CHOOSE x \in S : \A y \in S \ {x} : LexLess(x, y)
         IN  <<m>> \o SortKeys(S \ {m})

\* Locations.__init__: the four fixed zones, then the named zones of the
\* keys location<digits>, in the order of the sorted keys
Locations(cfg) ==
    LET keys == SortKeys(DOMAIN cfg.named)
    IN  [traveling    |-> Location("traveling", NoPattern, cfg.travelingangle),
         unknown      |-> Location("in an unknown location", NoPattern,
                                   cfg.unknownangle),
         lost         |-> Location("lost", NoPattern, cfg.lostangle),
         mortal_peril |-> Location("in mortal peril", NoPattern,
                                   cfg.mortalperilangle),
         locations    |-> [i \in 1..Len(keys) |->
                              Location(cfg.named[keys[i]].label,
                                       cfg.named[keys[i]].pattern,
                                       cfg.named[keys[i]].angle)]]

\* the loop of getLoc, from its i-th named zone on: the first zone that
\* matches event['desc'], which every turn of the loop reads
RECURSIVE getLocLoop(_, _, _)
getLocLoop(locs, event, i) ==
    IF i > Len(locs.locations) THEN [exc |-> "none", loc |-> locs.unknown]
    ELSE IF "desc" \notin DOMAIN event
         THEN [exc |-> "KeyError", loc |-> NoLocation]
    ELSE IF matches(locs.locations[i], event.desc)
         THEN [exc |-> "none", loc |-> locs.locations[i]]
    ELSE getLocLoop(locs, event, i + 1)

\* getLoc with its loop running over the named zones from the last to the
\* first, so that the last zone that matches wins
RECURSIVE getLocLoopLast(_, _, _)
getLocLoopLast(locs, event, i) ==
    IF i < 1 THEN [exc |-> "none", loc |-> locs.unknown]
    ELSE IF "desc" \notin DOMAIN event
         THEN [exc |-> "KeyError", loc |-> NoLocation]
    ELSE IF matches(locs.locations[i], event.desc)
         THEN [exc |-> "none", loc |-> locs.locations[i]]
    ELSE getLocLoopLast(locs, event, i - 1)

getLoc_LastMatch(locs, event) ==
    IF "_type" \notin DOMAIN event
    THEN [exc |-> "KeyError", loc |-> NoLocation]
    ELSE IF event._type # "transition"
    THEN [exc |-> "none", loc |-> NoLocation]
    ELSE IF "event" \notin DOMAIN event
    THEN [exc |-> "KeyError", loc |-> NoLocation]
    ELSE IF event.event = "leave"
    THEN [exc |-> "none", loc |-> locs.traveling]
    ELSE getLocLoopLast(locs, event, Len(locs.locations))

\* getLoc without its test for a 'leave' event
getLoc_NoLeave(locs, event) ==
    IF "_type" \notin DOMAIN event
    THEN [exc |-> "KeyError", loc |-> NoLocation]
    ELSE IF event._type # "transition"
    THEN [exc |-> "none", loc |-> NoLocation]
    ELSE getLocLoop(locs, event, 1)

\* Locations.getLoc of a decoded JSON object: the zone it returns, or the
\* exception a missing field raises
getLoc(locs, event) ==
    IF "_type" \notin DOMAIN event
    THEN [exc |-> "KeyError", loc |-> NoLocation]
    ELSE IF event._type # "transition"
    THEN [exc |-> "none", loc |-> NoLocation]
    ELSE IF "event" \notin DOMAIN event
    THEN [exc |-> "KeyError", loc |-> NoLocation]
    ELSE IF event.event = "leave"
    THEN [exc |-> "none", loc |-> locs.traveling]
    ELSE getLocLoop(locs, event, 1)

\* an iteration that yields the named zones before the fixed ones
LocationsIter_NamedFirst(locs) ==
    locs.locations
        \o <<locs.traveling, locs.unknown, locs.lost, locs.mortal_peril>>

\* Locations.__iter__: the four fixed zones, then the named zones
LocationsIter(locs) ==
    <<locs.traveling, locs.unknown, locs.lost, locs.mortal_peril>>
        \o locs.locations

----------------------------------------------------------------------------
(* class Person, Clock.setupPeople, Clock.findPerson *)

Person(name, user, device, servo) ==
    [name |-> name, user |-> user, device |-> device, servo |-> servo]

\* d[key] = value on a dict: a key the dict holds keeps its place and takes
\* the new value, a new key goes to the end
DictSet(d, key, value) ==
    IF \E i \in 1..Len(d) : d[i].key = key
    THEN [i \in 1..Len(d) |->
            IF d[i].key = key THEN [key |-> key, value |-> value] ELSE d[i]]
    ELSE Append(d, [key |-> key, value |-> value])

\* the loop of setupPeople over the sorted section names
RECURSIVE setupPeopleLoop(_, _, _, _)
setupPeopleLoop(cfg, sections, i, d) ==
    IF i > Len(sections) THEN d
    ELSE LET section == cfg.persons[sections[i]]
         IN  setupPeopleLoop(cfg, sections, i + 1,
                 DictSet(d, section.username \o <<"/">> \o section.deviceid,
                         Person(section.name, section.username,
                                section.deviceid, section.servo)))

\* Clock.setupPeople: the sections person<digits>, sorted by name, keyed by
\* username/deviceid
setupPeople(cfg) ==
    setupPeopleLoop(cfg, SortKeys(DOMAIN cfg.persons), 1, <<>>)

\* findPerson without its break: the last pattern that matches wins
RECURSIVE findPersonLast(_, _, _)
findPersonLast(ppl, ident, i) ==
    IF i < 1 THEN NoPerson
    ELSE IF re_search(ppl[i].key, ident) THEN ppl[i].value
    ELSE findPersonLast(ppl, ident, i - 1)

findPerson_NoBreak(ppl, ident) == findPersonLast(ppl, ident, Len(ppl))

\* the loop of findPerson over self.people.keys(), from the i-th key on
RECURSIVE findPersonLoop(_, _, _)
findPersonLoop(ppl, ident, i) ==
    IF i > Len(ppl) THEN NoPerson
    ELSE IF re_search(ppl[i].key, ident) THEN ppl[i].value
    ELSE findPersonLoop(ppl, ident, i + 1)

\* Clock.findPerson
findPerson(ppl, ident) == findPersonLoop(ppl, ident, 1)

----------------------------------------------------------------------------
(* Configurations *)

\* the digits of the numbered keys: location1, location2, location10 and
\* person1, person2, person10
NumberedKeys == {<<1>>, <<2>>, <<1, 0>>}

ZoneLabel(k) == IF k = <<1>> THEN "home" ELSE IF k = <<2>> THEN "work" ELSE "pub"
ZoneAngle(k) == IF k = <<1>> THEN 120 ELSE IF k = <<2>> THEN 150 ELSE 170
ZonePatterns == {<<"h">>, <<"w">>, <<".", "w">>, <<>>}

PersonName(k) == IF k = <<1>> THEN "Alice" ELSE IF k = <<2>> THEN "Bob" ELSE "Carol"
PersonServo(k) == IF k = <<1>> THEN 0 ELSE IF k = <<2>> THEN 1 ELSE 2
Usernames == {<<"a">>, <<".">>}
DeviceIds == {<<"p">>, <<"p", "1">>}

\* a configuration file with the named zones and the person sections given
Config(named, persons) ==
    [travelingangle |-> 0, unknownangle |-> 30, lostangle |-> 60,
     mortalperilangle |-> 90, named |-> named, persons |-> persons,
     channels |-> 3]

KeySets(n) == {K \in SUBSET NumberedKeys : Cardinality(K) <= n}

\* the named zones of a configuration: up to MaxZones numbered keys, each
\* with a pattern
NamedZoneSets ==
    UNION {{[k \in K |-> [label |-> ZoneLabel(k), pattern |-> pf[k],
                          angle |-> ZoneAngle(k)]] :
               pf \in [K -> ZonePatterns]} : K \in KeySets(MaxZones)}

\* the person sections of a configuration: up to MaxPeople numbered
\* sections, each with a username and a device id
PersonSets ==
    UNION {{[k \in K |-> [name |-> PersonName(k), username |-> uf[k],
                          deviceid |-> df[k], servo |-> PersonServo(k)]] :
               uf \in [K -> Usernames], df \in [K -> DeviceIds]} :
           K \in KeySets(MaxPeople)}

NoZones == [k \in {} |-> 0]
NoPersons == [k \in {} |-> 0]

----------------------------------------------------------------------------
(* The state the specifications of the registries leave alone *)

NoServos == [c \in {} |-> NoAngle]
EmptyDB == [schema |-> FALSE, rows |-> <<>>]

\* the defaults of Clock.__init__
min_reconnect_interval == 1
max_reconnect_interval == 120

\* Clock.broker before setupMQTT.  connected is Clock.broker_connected,
\* reconnect_interval is Clock.reconnect_interval.  link is the condition
\* of the client's connection: "none" (no socket), "connecting" (socket
\* open, CONNECT sent), "established" (CONNACK received), "closing" (a
\* DISCONNECT is queued).  subscribed: a SUBSCRIBE was sent on the present
\* connection.  calls: the calls the last handler made.  The other fields
\* are history: waits, the sleeps since reconnect_interval was last the
\* minimum; unwaited, a reconnect has failed and no sleep has followed;
\* recovered, a reconnect has succeeded and none has failed since;
\* expected, the last disconnect reported had status 0.
NoBroker ==
    [connected |-> FALSE, link |-> "none", subscribed |-> FALSE,
     reconnect_interval |-> min_reconnect_interval, calls |-> <<>>,
     waits |-> <<>>, unwaited |-> FALSE, recovered |-> FALSE,
     expected |-> FALSE]

\* no call of onBrokerMessage is in progress
NoMessage == [pc |-> "idle"]

Idle ==
    /\ servos = NoServos
    /\ state_db = EmptyDB
    /\ storeFault = "none"
    /\ now = 1
    /\ proc = "stopped"
    /\ lastHandled = NoServos
    /\ allPersisted = TRUE
    /\ broker = NoBroker
    /\ inflight = NoMessage

----------------------------------------------------------------------------
(* SpecZones: Locations.getLoc applied to transition events *)

DescChars == {"h", "w"}
Descriptions == StringsUpTo(DescChars, MaxDescLen)

\* the decoded documents that have the three fields the program reads
TransitionEvents ==
    [_type : {"transition", "lwt"}, event : {"enter", "leave"},
     desc : Descriptions]

InitZones ==
    /\ config \in {Config(named, NoPersons) : named \in NamedZoneSets}
    /\ locations = Locations(config)
    /\ people = <<>>
    /\ last = [op |-> "none"]
    /\ Idle

Resolve ==
    \E event \in TransitionEvents :
        LET r == getLoc(locations, event)
        IN  /\ last' = [op |-> "getLoc", event |-> event, exc |-> r.exc,
                        loc |-> r.loc]
            /\ UNCHANGED <<config, locations, people, servos, state_db,
                           storeFault, now, proc, lastHandled, allPersisted>>
            /\ UNCHANGED <<broker, inflight>>

\* iter(self.locations), as a caller would list the zones
Iterate ==
    /\ last' = [op |-> "iter", zones |-> LocationsIter(locations)]
    /\ UNCHANGED <<config, locations, people, servos, state_db, storeFault,
                   now, proc, lastHandled, allPersisted, broker, inflight>>

NextZones == Resolve \/ Iterate

SpecZones == InitZones /\ [][NextZones]_vars

\* the pattern matches some substring of the text: a stretch of the text as
\* long as the pattern agrees with it wherever the pattern is not "."
Substrings(text) ==
    {SubSeq(text, i, j) : i \in 1..(Len(text) + 1), j \in 0..Len(text)}

FoundIn(pattern, text) ==
    \E s \in Substrings(text) :
        /\ Len(s) = Len(pattern)
        /\ \A k \in 1..Len(pattern) : pattern[k] \in {".", s[k]}

\* the named zones, by place in evaluation order, whose pattern is found
\* in the description
ZoneHits(desc) ==
    {k \in 1..Len(locations.locations) :
        FoundIn(locations.locations[k].pattern, desc)}

IsEnter ==
    /\ last.op = "getLoc"
    /\ last.event._type = "transition"
    /\ last.event.event = "enter"

IsLeave ==
    /\ last.op = "getLoc"
    /\ last.event._type = "transition"
    /\ last.event.event = "leave"

\* C1: for a transition event with action 'enter', getLoc returns the first
\* named zone, in evaluation order, whose pattern is found anywhere in the
\* region description, and the unknown zone when no named zone's is.
C1_EnterFirstMatch ==
    IsEnter =>
        LET hits == ZoneHits(last.event.desc)
        IN  /\ last.exc = "none"
            /\ IF hits = {} THEN last.loc = locations.unknown
               ELSE \E k \in hits :
                       /\ \A j \in hits : k <= j
                       /\ last.loc = locations.locations[k]

\* an 'enter' whose description two named zones match, the first of them
\* not at the start of the description, and which resolved to the first
C1_Witness ==
    /\ IsEnter
    /\ ZoneHits(last.event.desc) = {1, 2}
    /\ ~re_match(locations.locations[1].pattern, last.event.desc)
    /\ locations.locations[1] # locations.locations[2]
    /\ last.loc = locations.locations[1]

\* C2: for a transition event with action 'leave', getLoc returns the
\* traveling zone, whatever the description and the named zones are.
C2_LeaveTraveling ==
    IsLeave => last.exc = "none" /\ last.loc = locations.traveling

\* a 'leave' whose description a named zone matches, resolved to traveling
C2_Witness ==
    /\ IsLeave
    /\ ZoneHits(last.event.desc) # {}
    /\ last.loc = locations.traveling

\* the number that a key's digits write
RECURSIVE KeyNumber(_)
KeyNumber(k) ==
    IF k = <<>> THEN 0
    ELSE 10 * KeyNumber(SubSeq(k, 1, Len(k) - 1)) + k[Len(k)]

\* the keys of the named zones whose pattern is found in the description
KeyHits(desc) ==
    {k \in DOMAIN config.named : FoundIn(config.named[k].pattern, desc)}

\* C19: the named zones are tried in the ascending order of the numbers of
\* their entries, location2 before location10: an 'enter' resolves to the
\* zone of the smallest number among those whose pattern is found.
C19_AscendingNumberOrder ==
    (IsEnter /\ KeyHits(last.event.desc) # {}) =>
        \E k \in KeyHits(last.event.desc) :
            /\ \A j \in KeyHits(last.event.desc) :
                  KeyNumber(k) <= KeyNumber(j)
            /\ last.loc = Location(config.named[k].label,
                                   config.named[k].pattern,
                                   config.named[k].angle)

FixedNames == <<"traveling", "in an unknown location", "lost", "in mortal peril">>

\* C20: getLoc never returns the zones lost and mortal peril: for a
\* transition event it returns traveling, unknown or a named zone; yet an
\* iteration over the registry yields the four fixed zones, lost and mortal
\* peril among them, and then every named zone.
C20_FixedZonesListedNotReturned ==
    /\ (last.op = "getLoc" /\ last.event._type = "transition") =>
          /\ last.exc = "none"
          /\ last.loc \notin {locations.lost, locations.mortal_peril}
          /\ \/ last.loc \in {locations.traveling, locations.unknown}
             \/ \E k \in 1..Len(locations.locations) :
                   last.loc = locations.locations[k]
    /\ last.op = "iter" =>
          /\ Len(last.zones) = 4 + Cardinality(DOMAIN config.named)
          /\ \A i \in 1..4 :
                /\ last.zones[i].name = FixedNames[i]
                /\ last.zones[i].pattern = NoPattern
          /\ last.zones[3] = locations.lost
          /\ last.zones[4] = locations.mortal_peril
          /\ \A k \in 1..Len(locations.locations) :
                last.zones[4 + k] = locations.locations[k]
          /\ \A key \in DOMAIN config.named :
                \E i \in 5..Len(last.zones) :
                    last.zones[i].name = config.named[key].label

\* the zones of a registry with two named zones have been listed
C20_Witness ==
    /\ last.op = "iter"
    /\ Len(locations.locations) = 2
    /\ Len(last.zones) = 6
    /\ last.zones[3].name = "lost"

----------------------------------------------------------------------------
(* SpecPeople: Clock.findPerson applied to identities *)

TopicUsers == {<<"a">>, <<"b">>}
TopicDevices == {<<"p">>, <<"p", "1">>, <<"q">>}

\* the identities '{user}/{device}' of the topics owntracks/<user>/<device>/event
Identities == {u \o <<"/">> \o d : u \in TopicUsers, d \in TopicDevices}

InitPeople ==
    /\ config \in {Config(NoZones, persons) : persons \in PersonSets}
    /\ locations = Locations(config)
    /\ people = setupPeople(config)
    /\ last = [op |-> "none"]
    /\ Idle

Lookup ==
    \E ident \in Identities :
        /\ last' = [op |-> "findPerson", ident |-> ident,
                    person |-> findPerson(people, ident)]
        /\ UNCHANGED <<config, locations, people, servos, state_db,
                       storeFault, now, proc, lastHandled, allPersisted>>
        /\ UNCHANGED <<broker, inflight>>

NextPeople == Lookup

SpecPeople == InitPeople /\ [][NextPeople]_vars

\* the entries of the registry, by place in registration order, whose key
\* is found in the identity
PersonHits(ident) ==
    {k \in 1..Len(people) : FoundIn(people[k].key, ident)}

\* C3: findPerson returns the person of the first registered entry, in
\* registration order, whose identity pattern is found in the identity
\* given, and None when no entry's is.
C3_FirstRegisteredMatch ==
    last.op = "findPerson" =>
        LET hits == PersonHits(last.ident)
        IN  IF hits = {} THEN last.person = NoPerson
            ELSE \E k \in hits :
                    /\ \A j \in hits : k <= j
                    /\ last.person = people[k].value

\* an identity that two registered entries match, found to be the first's
C3_Witness ==
    /\ last.op = "findPerson"
    /\ PersonHits(last.ident) = {1, 2}
    /\ people[1].value # people[2].value
    /\ last.person = people[1].value

----------------------------------------------------------------------------
(* The state file: sqlite3 and the schema of createLocationsTable *)

\* What the environment does to the state file.  "none": every statement
\* runs.  "readonly": reads run; a write raises OperationalError('attempt
\* to write a readonly database').  "ioerror": every statement raises
\* OperationalError('disk I/O error').  "notadb": every statement raises
\* DatabaseError('file is not a database').
StoreFaults == {"none", "readonly", "ioerror", "notadb"}

\* the exception a statement raises before it looks at the schema
FaultExc(fault, writes) ==
    IF fault = "notadb" THEN "DatabaseError"
    ELSE IF fault = "ioerror" THEN "OperationalError"
    ELSE IF fault = "readonly" /\ writes THEN "OperationalError"
    ELSE "none"

\* the view latest_ident_update: max(timestamp) ... GROUP BY ident
latest_ident_update(rows, ident) ==
    LET stamps == {rows[i].timestamp : i \in {j \in 1..Len(rows) :
                                                rows[j].ident = ident}}
    IN  CHOOSE t \in stamps : \A u \in stamps : u <= t

\* the view locations: location_history joined with latest_ident_update on
\* ident and timestamp; here in the order of the rows of location_history
locations_view(rows) ==
    SelectSeq(rows, LAMBDA lh :
        lh.timestamp = latest_ident_update(rows, lh.ident))

\* SELECT ident, location_name, location_angle, timestamp FROM locations
\* (the rows come in an order SQL leaves open: see RowOrders)
SelectLocations(db, fault) ==
    IF FaultExc(fault, FALSE) # "none"
    THEN [exc |-> FaultExc(fault, FALSE), rows |-> <<>>]
    ELSE IF ~db.schema THEN [exc |-> "NoSuchTable", rows |-> <<>>]
    ELSE [exc |-> "none", rows |-> locations_view(db.rows)]

\* INSERT INTO locations ... and commit: the trigger save_location_history
\* appends the row to location_history
InsertLocation(db, fault, row) ==
    IF FaultExc(fault, FALSE) # "none"
    THEN [exc |-> FaultExc(fault, FALSE), db |-> db]
    ELSE IF ~db.schema THEN [exc |-> "NoSuchTable", db |-> db]
    ELSE IF FaultExc(fault, TRUE) # "none"
    THEN [exc |-> FaultExc(fault, TRUE), db |-> db]
    ELSE [exc |-> "none", db |-> [db EXCEPT !.rows = Append(@, row)]]

\* Clock.createLocationsTable: CREATE ... IF NOT EXISTS of the table, the
\* index, the two views and the trigger; every exception is caught
createLocationsTable(db, fault) ==
    IF FaultExc(fault, FALSE) # "none"
    THEN [ok |-> FALSE, exc |-> "none", db |-> db]
    ELSE IF db.schema THEN [ok |-> TRUE, exc |-> "none", db |-> db]
    ELSE IF FaultExc(fault, TRUE) # "none"
    THEN [ok |-> FALSE, exc |-> "none", db |-> db]
    ELSE [ok |-> TRUE, exc |-> "none", db |-> [db EXCEPT !.schema = TRUE]]

max_attempts == 3

\* the while loop of saveState, after attempt_counter attempts
RECURSIVE saveStateLoop(_, _, _, _, _)
saveStateLoop(db, fault, row, attempt_counter, effects) ==
    IF attempt_counter >= max_attempts
    THEN [exc |-> "none", db |-> db, saved |-> FALSE,
          attempts |-> attempt_counter, effects |-> effects]
    ELSE LET ins == InsertLocation(db, fault, row)
         IN  IF ins.exc = "none"
             THEN [exc |-> "none", db |-> ins.db, saved |-> TRUE,
                   attempts |-> attempt_counter + 1,
                   effects |-> Append(effects, "insert")]
             ELSE IF ins.exc = "NoSuchTable"
             THEN saveStateLoop(createLocationsTable(db, fault).db, fault,
                                row, attempt_counter + 1,
                                effects \o <<"insert", "create">>)
             ELSE [exc |-> "none", db |-> db, saved |-> FALSE,
                   attempts |-> attempt_counter + 1,
                   effects |-> Append(effects, "insert")]

\* the loop of a saveState that tries again after a failure of any kind
RECURSIVE saveStateLoopAny(_, _, _, _, _)
saveStateLoopAny(db, fault, row, attempt_counter, effects) ==
    IF attempt_counter >= max_attempts
    THEN [exc |-> "none", db |-> db, saved |-> FALSE,
          attempts |-> attempt_counter, effects |-> effects]
    ELSE LET ins == InsertLocation(db, fault, row)
         IN  IF ins.exc = "none"
             THEN [exc |-> "none", db |-> ins.db, saved |-> TRUE,
                   attempts |-> attempt_counter + 1,
                   effects |-> Append(effects, "insert")]
             ELSE IF ins.exc = "NoSuchTable"
             THEN saveStateLoopAny(createLocationsTable(db, fault).db, fault,
                                   row, attempt_counter + 1,
                                   effects \o <<"insert", "create">>)
             ELSE saveStateLoopAny(db, fault, row, attempt_counter + 1,
                                   Append(effects, "insert"))

saveState_RetryAny(db, fault, ident, name, angle, timestamp) ==
    saveStateLoopAny(db, fault,
                     [ident |-> ident, location_name |-> name,
                      location_angle |-> angle, timestamp |-> timestamp],
                     0, <<>>)

\* saveState that does not try again after it created the schema
saveState_NoRetry(db, fault, ident, name, angle, timestamp) ==
    LET row == [ident |-> ident, location_name |-> name,
                location_angle |-> angle, timestamp |-> timestamp]
        ins == InsertLocation(db, fault, row)
    IN  IF ins.exc = "NoSuchTable"
        THEN [exc |-> "none", db |-> createLocationsTable(db, fault).db,
              saved |-> FALSE, attempts |-> 1,
              effects |-> <<"insert", "create">>]
        ELSE [exc |-> "none", db |-> ins.db, saved |-> ins.exc = "none",
              attempts |-> 1, effects |-> <<"insert">>]

\* Clock.saveState: the file after the call, whether the row was written,
\* the number of INSERTs tried and the statements in the order they ran
saveState(db, fault, ident, name, angle, timestamp) ==
    saveStateLoop(db, fault,
                  [ident |-> ident, location_name |-> name,
                   location_angle |-> angle, timestamp |-> timestamp],
                  0, <<>>)

----------------------------------------------------------------------------
(* class Clock: servos, restoring the state, handling a message *)

\* Clock.setupServos: a new ServoKit, no servo of which has been set
setupServos(cfg) == [c \in 0..(cfg.channels - 1) |-> NoAngle]

\* Clock.setLoc
setLoc(srv, person, loc) == [srv EXCEPT ![person.servo] = loc.angle]

\* the orders in which a SELECT without ORDER BY may return n rows
RowOrders(n) ==
    {f \in [1..n -> 1..n] : \A i, j \in 1..n : f[i] = f[j] => i = j}

\* the loop of setStateFromDB over the rows, taken in the order given
RECURSIVE restoreLoop(_, _, _, _, _)
restoreLoop(ppl, srv, rows, order, i) ==
    IF i > Len(rows) THEN srv
    ELSE LET row == rows[order[i]]
             person == findPerson(ppl, row.ident)
         IN  restoreLoop(ppl,
                         IF person # NoPerson
                         THEN [srv EXCEPT ![person.servo] = row.location_angle]
                         ELSE srv,
                         rows, order, i + 1)

\* Clock.setStateFromDB: only sqlite3.OperationalError is caught
setStateFromDB(ppl, srv, db, fault, order) ==
    LET sel == SelectLocations(db, fault)
    IN  IF sel.exc = "none"
        THEN [exc |-> "none", db |-> db, effects |-> <<"select">>,
              servos |-> restoreLoop(ppl, srv, sel.rows, order, 1)]
        ELSE IF sel.exc = "NoSuchTable"
        THEN [exc |-> "none", db |-> createLocationsTable(db, fault).db,
              effects |-> <<"select", "create">>, servos |-> srv]
        ELSE IF sel.exc = "OperationalError"
        THEN [exc |-> "none", db |-> db, effects |-> <<"select">>,
              servos |-> srv]
        ELSE [exc |-> sel.exc, db |-> db, effects |-> <<"select">>,
              servos |-> srv]

\* what onBrokerMessage does when it returns or raises before setLoc
Unhandled(srv, db, exc, person) ==
    [exc |-> exc, person |-> person, loc |-> NoLocation, servos |-> srv,
     db |-> db, effects |-> <<>>, reached |-> FALSE, saved |-> FALSE]

\* onBrokerMessage with saveState called first and setLoc only after the
\* record was written
onBrokerMessage_SaveFirst(ppl, locs, srv, db, fault, t, ident, payload) ==
    IF payload.kind = "text"
    THEN Unhandled(srv, db, "JSONDecodeError", NoPerson)
    ELSE IF payload.kind = "array"
    THEN Unhandled(srv, db, "TypeError", NoPerson)
    ELSE IF "_type" \notin DOMAIN payload.doc
    THEN Unhandled(srv, db, "KeyError", NoPerson)
    ELSE IF payload.doc._type # "transition"
    THEN Unhandled(srv, db, "none", NoPerson)
    ELSE LET person == findPerson(ppl, ident)
             got == getLoc(locs, payload.doc)
         IN  IF person = NoPerson THEN Unhandled(srv, db, "none", NoPerson)
             ELSE IF got.exc # "none" THEN Unhandled(srv, db, got.exc, person)
             ELSE LET saved == saveState(db, fault, ident, got.loc.name,
                                         got.loc.angle, t)
                  IN  [exc |-> "none", person |-> person, loc |-> got.loc,
                       servos |-> IF saved.saved
                                  THEN setLoc(srv, person, got.loc) ELSE srv,
                       db |-> saved.db,
                       effects |-> saved.effects \o
                           (IF saved.saved THEN <<"setLoc">> ELSE <<>>),
                       reached |-> TRUE, saved |-> saved.saved]

\* onBrokerMessage that acts on a message of a device it does not know as
\* if it came from the first person registered
onBrokerMessage_AnyDevice(ppl, locs, srv, db, fault, t, ident, payload) ==
    IF payload.kind = "text"
    THEN Unhandled(srv, db, "JSONDecodeError", NoPerson)
    ELSE IF payload.kind = "array"
    THEN Unhandled(srv, db, "TypeError", NoPerson)
    ELSE IF "_type" \notin DOMAIN payload.doc
    THEN Unhandled(srv, db, "KeyError", NoPerson)
    ELSE IF payload.doc._type # "transition"
    THEN Unhandled(srv, db, "none", NoPerson)
    ELSE LET found == findPerson(ppl, ident)
             person == IF found = NoPerson /\ Len(ppl) > 0
                       THEN ppl[1].value ELSE found
             got == getLoc(locs, payload.doc)
         IN  IF person = NoPerson THEN Unhandled(srv, db, "none", NoPerson)
             ELSE IF got.exc # "none" THEN Unhandled(srv, db, got.exc, person)
             ELSE LET saved == saveState(db, fault, ident, got.loc.name,
                                         got.loc.angle, t)
                  IN  [exc |-> "none", person |-> person, loc |-> got.loc,
                       servos |-> setLoc(srv, person, got.loc),
                       db |-> saved.db,
                       effects |-> <<"setLoc">> \o saved.effects,
                       reached |-> TRUE, saved |-> saved.saved]

\* Clock.onBrokerMessage for a message of topic owntracks/<ident>/event
\* received at time t: json.loads, the test of _type, findPerson, getLoc,
\* setLoc, saveState.  No exception is caught.
onBrokerMessage(ppl, locs, srv, db, fault, t, ident, payload) ==
    IF payload.kind = "text"
    THEN Unhandled(srv, db, "JSONDecodeError", NoPerson)
    ELSE IF payload.kind = "array"
    THEN Unhandled(srv, db, "TypeError", NoPerson)
    ELSE IF "_type" \notin DOMAIN payload.doc
    THEN Unhandled(srv, db, "KeyError", NoPerson)
    ELSE IF payload.doc._type # "transition"
    THEN Unhandled(srv, db, "none", NoPerson)
    ELSE LET person == findPerson(ppl, ident)
             got == getLoc(locs, payload.doc)
         IN  IF person = NoPerson THEN Unhandled(srv, db, "none", NoPerson)
             ELSE IF got.exc # "none" THEN Unhandled(srv, db, got.exc, person)
             ELSE LET saved == saveState(db, fault, ident, got.loc.name,
                                         got.loc.angle, t)
                  IN  [exc |-> "none", person |-> person, loc |-> got.loc,
                       servos |-> setLoc(srv, person, got.loc),
                       db |-> saved.db,
                       effects |-> <<"setLoc">> \o saved.effects,
                       reached |-> TRUE, saved |-> saved.saved]

----------------------------------------------------------------------------
(* SpecStore: saveState called with timestamps of the caller's choice *)

StoreIdents == {<<"a", "/", "p">>, <<"b", "/", "p">>}
StoreZones == {[name |-> "home", angle |-> 120], [name |-> "work", angle |-> 150]}

InitStore ==
    /\ config = Config(NoZones, NoPersons)
    /\ locations = Locations(config)
    /\ people = <<>>
    /\ servos = NoServos
    /\ state_db = EmptyDB
    /\ storeFault = "none"
    /\ now = 1
    /\ proc = "running"
    /\ last = [op |-> "none"]
    /\ lastHandled = NoServos
    /\ allPersisted = TRUE
    /\ broker = NoBroker
    /\ inflight = NoMessage

SaveState ==
    /\ Len(state_db.rows) < MaxRows
    /\ \E ident \in StoreIdents, zone \in StoreZones, timestamp \in 1..MaxStamp :
          LET r == saveState(state_db, storeFault, ident, zone.name,
                             zone.angle, timestamp)
          IN  /\ state_db' = r.db
              /\ last' = [op |-> "saveState", exc |-> r.exc,
                          row |-> [ident |-> ident, location_name |-> zone.name,
                                   location_angle |-> zone.angle,
                                   timestamp |-> timestamp],
                          schemaBefore |-> state_db.schema,
                          before |-> state_db,
                          fault |-> storeFault, saved |-> r.saved,
                          attempts |-> r.attempts, effects |-> r.effects]
    /\ UNCHANGED <<config, locations, people, servos, storeFault, now, proc,
                   lastHandled, allPersisted>>
    /\ UNCHANGED <<broker, inflight>>

\* the environment changes the condition of the state file
SetFault ==
    /\ \E f \in StoreFaults \ {storeFault} : storeFault' = f
    /\ last' = [op |-> "fault"]
    /\ UNCHANGED <<config, locations, people, servos, state_db, now, proc,
                   lastHandled, allPersisted>>
    /\ UNCHANGED <<broker, inflight>>

NextStore == SaveState \/ SetFault

SpecStore == InitStore /\ [][NextStore]_vars

\* the rows a read of the view locations returns now, the file being sound
LatestStates == SelectLocations(state_db, "none").rows

LatestOf(ident) == SelectSeq(LatestStates, LAMBDA r : r.ident = ident)

\* C7: saveState called on a sound file that has no schema yet finds 'no
\* such table' at its first INSERT, creates the schema, repeats the INSERT
\* and ends with the record written; a read of the view locations then
\* returns the record.
C7_SelfHeals ==
    (last.op = "saveState" /\ ~last.schemaBefore /\ last.fault = "none") =>
        /\ last.exc = "none"
        /\ last.saved
        /\ last.effects = <<"insert", "create", "insert">>
        /\ state_db.schema
        /\ LatestStates = <<last.row>>

\* a saveState on the file without schema has just returned
C7_Witness ==
    /\ last.op = "saveState"
    /\ ~last.schemaBefore
    /\ last.fault = "none"
    /\ last.attempts = 2
    /\ LatestStates = <<last.row>>

\* C8: after one or more successful saveState calls for an identity, with
\* any timestamps, the view locations holds exactly one record of that
\* identity, a record with the greatest timestamp of the calls.
C8_OneLatestPerIdentity ==
    \A ident \in StoreIdents :
        (\E i \in 1..Len(state_db.rows) : state_db.rows[i].ident = ident) =>
            /\ Len(LatestOf(ident)) = 1
            /\ \A i \in 1..Len(state_db.rows) :
                  state_db.rows[i].ident = ident =>
                      state_db.rows[i].timestamp <= LatestOf(ident)[1].timestamp

\* the INSERTs of the last saveState
Inserts == SelectSeq(last.effects, LAMBDA e : e = "insert")

\* the table is missing and the file cannot be written: the schema cannot
\* be created
NoSchemaEver == ~last.schemaBefore /\ last.fault = "readonly"

\* the INSERT fails, and not for the missing table
OtherFailure ==
    \/ last.fault \in {"ioerror", "notadb"}
    \/ last.fault = "readonly" /\ last.schemaBefore

\* C18: saveState ends after at most 3 INSERTs.  An INSERT is repeated only
\* after one that failed with 'no such table' and the createLocationsTable
\* that follows it; after any other failure saveState ends at once, with
\* nothing written; when the schema cannot be created it gives up after
\* the third INSERT.
C18_BoundedRetry ==
    last.op = "saveState" =>
        /\ last.attempts <= max_attempts
        /\ Len(Inserts) = last.attempts
        /\ \A i \in 1..(Len(last.effects) - 1) :
              last.effects[i + 1] = "insert" =>
                  /\ last.effects[i] = "create"
                  /\ i > 1
                  /\ last.effects[i - 1] = "insert"
        /\ last.attempts > 1 => ~last.schemaBefore
        /\ OtherFailure =>
              /\ last.effects = <<"insert">>
              /\ ~last.saved
              /\ state_db = last.before
        /\ NoSchemaEver =>
              /\ last.attempts = max_attempts
              /\ last.effects = <<"insert", "create", "insert", "create",
                                  "insert", "create">>
              /\ ~last.saved
              /\ state_db = last.before

\* saveState has given up after its third INSERT
C18_Witness ==
    /\ last.op = "saveState"
    /\ NoSchemaEver
    /\ last.attempts = 3
    /\ ~last.saved

----------------------------------------------------------------------------
(* The connection to the MQTT broker: setupMQTT, the callbacks of the     *)
(* client, Clock.loop and hupHandler.  The client is the paho library:    *)
(* whether a connection attempt succeeds, and what the network does while *)
(* the client's loop() runs, is for the environment to choose.            *)

\* the largest number of sleeps of Clock.loop between two resets of
\* reconnect_interval
MaxFailures == 9

\* the return codes of the client's loop() that Clock.loop tells apart
MQTT_ERR_SUCCESS == 0
MQTT_ERR_CONN_LOST == 7
MQTT_ERR_NO_CONN == 4

NetEvents == {"quiet", "connack", "lost"}

NoCalls(b) == [b EXCEPT !.calls = <<>>]

\* client.subscribe('owntracks/+/+/event')
subscribe(b) ==
    [b EXCEPT !.subscribed = TRUE, !.calls = Append(@, [call |-> "subscribe"])]

\* the client has closed its socket
SockClose(b) == [b EXCEPT !.link = "none", !.subscribed = FALSE]

\* broker.connect and broker.reconnect: the socket, if any, is closed; a
\* new one is opened and CONNECT is sent, or an exception is raised (~ok)
reconnect(b, ok) ==
    [b EXCEPT !.link = IF ok THEN "connecting" ELSE "none",
              !.subscribed = FALSE,
              !.calls = Append(@, [call |-> "reconnect", ok |-> ok,
                                   unwaited |-> b.unwaited,
                                   recovered |-> b.recovered,
                                   expected |-> b.expected]),
              !.unwaited = ~ok,
              !.recovered = ok,
              !.expected = FALSE]

\* time.sleep(self.reconnect_interval)
sleep(b) ==
    [b EXCEPT !.calls = Append(@, [call |-> "sleep",
                                   secs |-> b.reconnect_interval]),
              !.waits = Append(@, b.reconnect_interval),
              !.unwaited = FALSE]

\* onBrokerConnect without its subscribe
onBrokerConnect_NoSubscribe(b) == [b EXCEPT !.connected = TRUE]

onBrokerConnect(b) == subscribe([b EXCEPT !.connected = TRUE])

\* the client calls on_disconnect with the status rc
Reported(b, rc) ==
    [b EXCEPT !.calls = Append(@, [call |-> "on_disconnect", rc |-> rc]),
              !.expected = (rc = 0)]

\* onBrokerDisconnect that tries to reconnect whatever the status
onBrokerDisconnect_AnyStatus(b, rc, ok) ==
    reconnect([Reported(b, rc) EXCEPT !.connected = FALSE], ok)

\* the exception of a failed reconnect is caught and logged
onBrokerDisconnect(b, rc, ok) ==
    LET b1 == [Reported(b, rc) EXCEPT !.connected = FALSE]
    IN  IF rc # 0 THEN reconnect(b1, ok) ELSE b1

\* broker.disconnect(): DISCONNECT is queued; the client writes it at once
\* (sync), closes the socket and reports the disconnect with status 0, or
\* does so in a later loop()
disconnect(b, sync) ==
    LET b1 == [b EXCEPT !.calls = Append(@, [call |-> "disconnect"])]
    IN  IF b.link = "none" THEN b1
        ELSE IF sync
             THEN onBrokerDisconnect(SockClose(b1), MQTT_ERR_SUCCESS, FALSE)
             ELSE [b1 EXCEPT !.link = "closing"]

\* broker.loop(): the client handles what the network brings, calls the
\* callbacks and returns a code.  Without a socket it returns an error
\* and calls nothing; a queued DISCONNECT is written; a lost connection is
\* reported to on_disconnect with the code that loop() then returns.
brokerLoop(b, net, ok) ==
    IF b.link = "none"
    THEN [b |-> b, rc |-> IF net = "lost" THEN MQTT_ERR_CONN_LOST
                          ELSE MQTT_ERR_NO_CONN]
    ELSE IF b.link = "closing"
    THEN [b |-> onBrokerDisconnect(SockClose(b), MQTT_ERR_SUCCESS, ok),
          rc |-> MQTT_ERR_SUCCESS]
    ELSE IF net = "lost"
    THEN [b |-> onBrokerDisconnect(SockClose(b), MQTT_ERR_CONN_LOST, ok),
          rc |-> MQTT_ERR_CONN_LOST]
    ELSE IF net = "connack" /\ b.link = "connecting"
    THEN [b |-> onBrokerConnect([b EXCEPT !.link = "established"]),
          rc |-> MQTT_ERR_SUCCESS]
    ELSE [b |-> b, rc |-> MQTT_ERR_SUCCESS]

\* Clock.loop that doubles the interval without the cap
loop_NoCap(b0, net, ok1, ok2) ==
    LET l == brokerLoop(NoCalls(b0), net, ok1)
    IN  IF l.rc = MQTT_ERR_CONN_LOST
        THEN LET r == reconnect(l.b, ok2)
             IN  IF ok2 THEN r
                 ELSE [sleep(r) EXCEPT
                          !.reconnect_interval = 2 * r.reconnect_interval]
        ELSE IF l.rc # 0 THEN l.b
        ELSE [l.b EXCEPT !.reconnect_interval = min_reconnect_interval,
                         !.waits = <<>>]

\* Clock.loop
loop(b0, net, ok1, ok2) ==
    LET l == brokerLoop(NoCalls(b0), net, ok1)
    IN  IF l.rc = MQTT_ERR_CONN_LOST
        THEN LET r == reconnect(l.b, ok2)
             IN  IF ok2 THEN r
                 ELSE [sleep(r) EXCEPT
                          !.reconnect_interval =
                              Min(max_reconnect_interval,
                                  2 * r.reconnect_interval)]
        ELSE IF l.rc # 0 THEN l.b
        ELSE [l.b EXCEPT !.reconnect_interval = min_reconnect_interval,
                         !.waits = <<>>]

\* setupMQTT: a new client, the callbacks, connect
setupMQTT(ok) ==
    [NoBroker EXCEPT !.link = IF ok THEN "connecting" ELSE "none",
                     !.calls = <<[call |-> "connect", ok |-> ok]>>]

\* hupHandler that leaves the connection as it is
hupHandler_KeepConnection(b, sync) == NoCalls(b)

\* hupHandler, as far as the broker goes
hupHandler(b, sync) ==
    IF b.connected THEN disconnect(NoCalls(b), sync) ELSE NoCalls(b)

----------------------------------------------------------------------------
(* Spec: the process, from its start to the messages it handles *)

\* the configuration of the clock: Alice's phone and Bob's, each with a
\* servo of its own, and the zone "home"
ClockConfigs ==
    {Config([k \in {<<1>>} |-> [label |-> "home", pattern |-> <<"h">>,
                                angle |-> 120]],
            [k \in {<<1>>, <<2>>} |->
                [name |-> PersonName(k),
                 username |-> IF k = <<1>> THEN <<"a">> ELSE <<"b">>,
                 deviceid |-> <<"p">>, servo |-> PersonServo(k)]])}

\* the identities of the topics: a/p and a/p1 are found by Alice's pattern
\* a/p, b/q by nobody's
ClockIdents ==
    {<<"a", "/", "p">>, <<"a", "/", "p", "1">>, <<"b", "/", "q">>}

NoFields == [f \in {} |-> ""]

\* the JSON objects of the payloads: with all the fields the handler reads,
\* or with the first ones only
Docs ==
    {NoFields}
        \cup [_type : {"transition", "lwt"}]
        \cup [_type : {"transition"}, event : {"enter"}]
        \cup [_type : {"transition"}, event : {"enter"}, desc : {<<"h">>, <<"x">>}]
        \cup [_type : {"transition"}, event : {"leave"}, desc : {<<"h">>}]

\* the payloads: text that is no JSON, a JSON array, a JSON object
Payloads ==
    {[kind |-> "text", doc |-> NoFields], [kind |-> "array", doc |-> NoFields]}
        \cup {[kind |-> "object", doc |-> d] : d \in Docs}

Init ==
    /\ config \in ClockConfigs
    /\ locations = Locations(config)
    /\ people = setupPeople(config)
    /\ servos = setupServos(config)
    /\ state_db = EmptyDB
    /\ storeFault = "none"
    /\ now = 1
    /\ proc = "stopped"
    /\ last = [op |-> "none"]
    /\ lastHandled = setupServos(config)
    /\ allPersisted = TRUE
    /\ broker = NoBroker
    /\ inflight = NoMessage

\* Clock.__init__ and initialize, at a start of the process: readConfig,
\* setupLocations, setupPeople, setupServos, setupDatabase, setupMQTT.  An
\* exception of setStateFromDB or of the broker's connect ends the process.
Startup ==
    /\ proc \in {"stopped", "crashed"}
    /\ \E order \in RowOrders(Len(SelectLocations(state_db, storeFault).rows)),
          ok \in BOOLEAN :
          LET r == setStateFromDB(setupPeople(config), setupServos(config),
                                  state_db, storeFault, order)
          IN  /\ locations' = Locations(config)
              /\ people' = setupPeople(config)
              /\ servos' = r.servos
              /\ state_db' = r.db
              /\ broker' = IF r.exc = "none" THEN setupMQTT(ok) ELSE broker
              /\ proc' = IF r.exc = "none" /\ ok THEN "running"
                         ELSE "crashed"
              /\ last' = [op |-> "initialize", exc |-> r.exc,
                          fault |-> storeFault, effects |-> r.effects]
    /\ UNCHANGED <<config, storeFault, now, lastHandled, allPersisted,
                   inflight>>

\* the broker delivers a message to Clock.onBrokerMessage; an exception
\* that leaves the handler leaves Clock.loop and main, and ends the process.
\* time.time() is read by saveState and is later at every call.
OnBrokerMessage ==
    /\ proc = "running"
    /\ \E ident \in ClockIdents, payload \in Payloads :
          LET r == onBrokerMessage(people, locations, servos, state_db,
                                   storeFault, now, ident, payload)
          IN  /\ r.reached => now <= MaxEvents
              /\ servos' = r.servos
              /\ state_db' = r.db
              /\ now' = IF r.reached THEN now + 1 ELSE now
              /\ proc' = IF r.exc = "none" THEN "running" ELSE "crashed"
              /\ last' = [op |-> "onBrokerMessage", exc |-> r.exc,
                          ident |-> ident, payload |-> payload,
                          person |-> r.person, loc |-> r.loc,
                          fault |-> storeFault, effects |-> r.effects,
                          saved |-> r.saved]
              /\ lastHandled' =
                    IF r.reached
                    THEN [lastHandled EXCEPT ![r.person.servo] = r.loc.angle]
                    ELSE lastHandled
              /\ allPersisted' = (allPersisted /\ (r.reached => r.saved))
    /\ UNCHANGED <<config, locations, people, storeFault>>
    /\ UNCHANGED <<broker, inflight>>

\* the process is stopped from outside
Stop ==
    /\ proc = "running"
    /\ proc' = "stopped"
    /\ last' = [op |-> "stop"]
    /\ UNCHANGED <<config, locations, people, servos, state_db, storeFault,
                   now, lastHandled, allPersisted>>
    /\ UNCHANGED <<broker, inflight>>

Next == Startup \/ OnBrokerMessage \/ Stop \/ SetFault

Spec == Init /\ [][Next]_vars

IsMessage(l) == l.op = "onBrokerMessage"

\* the payload is a JSON object with a _type
HasType(payload) == payload.kind = "object" /\ "_type" \in DOMAIN payload.doc

IsTransition(payload) == HasType(payload) /\ payload.doc._type = "transition"

\* the payload is no JSON object, or lacks a field the handler reads
Undecodable(payload) ==
    \/ ~HasType(payload)
    \/ /\ IsTransition(payload)
       /\ {"event", "desc"} \ DOMAIN payload.doc # {}

\* the message is an event that is no transition, or an event of an
\* identity that no registered person's pattern is found in
NotForAPerson(l) ==
    /\ HasType(l.payload)
    /\ ~IsTransition(l.payload) \/ PersonHits(l.ident) = {}

\* C4: onBrokerMessage sets a servo or writes to the state file only for a
\* transition event of an identity that resolves to a registered person: an
\* event that is no transition, and an event of an identity that matches no
\* registered person, is dropped, the handler returning with no setLoc, no
\* saveState and the servos and the state file as they were.
C4_OnlyRegisteredTransitionsAct ==
    [][IsMessage(last') =>
        /\ NotForAPerson(last') =>
              /\ last'.exc = "none"
              /\ last'.effects = <<>>
              /\ servos' = servos
              /\ state_db' = state_db
        /\ (last'.effects # <<>> \/ servos' # servos \/ state_db' # state_db) =>
              /\ IsTransition(last'.payload)
              /\ PersonHits(last'.ident) # {}]_vars

\* a well-formed 'enter' of an identity nobody is registered for, dropped
\* by a clock that has people registered and a zone that matches
C4_Witness ==
    /\ IsMessage(last)
    /\ IsTransition(last.payload)
    /\ ~Undecodable(last.payload)
    /\ last.payload.doc.event = "enter"
    /\ ZoneHits(last.payload.doc.desc) # {}
    /\ Len(people) > 0
    /\ PersonHits(last.ident) = {}
    /\ last.effects = <<>>
    /\ last.exc = "none"

\* the handler resolved the message to a person and a zone
Resolved ==
    /\ IsMessage(last)
    /\ last.exc = "none"
    /\ last.person # NoPerson
    /\ last.loc # NoLocation

\* C5: for a handled event that resolves to a person and a zone, setLoc
\* comes first and every statement of saveState after it, and when the
\* handler has returned the person's servo is at the zone's angle, whether
\* or not the record was written.
C5_ActuationBeforePersistence ==
    Resolved =>
        /\ Len(last.effects) >= 2
        /\ last.effects[1] = "setLoc"
        /\ \A i \in 2..Len(last.effects) : last.effects[i] \in {"insert", "create"}
        /\ servos[last.person.servo] = last.loc.angle

\* a handled event whose record could not be written, the servo set
C5_Witness ==
    /\ Resolved
    /\ ~last.saved
    /\ last.fault # "none"
    /\ servos[last.person.servo] = last.loc.angle
    /\ last.loc.angle # NoAngle

\* C6: a payload that cannot be decoded (no JSON, or a document without the
\* fields the handler reads) is dropped: no exception leaves
\* onBrokerMessage and the process keeps running.
C6_UndecodableDropped ==
    (IsMessage(last) /\ Undecodable(last.payload)) =>
        last.exc = "none" /\ proc = "running"

\* C9: after a start of the process that read the state file without an
\* error, every record of the events handled before having been written,
\* each person's servo is at the angle of the last event handled for that
\* person.
C9_StateSurvivesRestart ==
    (/\ last.op = "initialize"
     /\ last.exc = "none"
     /\ last.fault = "none"
     /\ last.effects = <<"select">>
     /\ allPersisted) =>
        \A c \in DOMAIN lastHandled :
            lastHandled[c] # NoAngle => servos[c] = lastHandled[c]

----------------------------------------------------------------------------
(* SpecConn: the process and its connection *)

InitConn ==
    /\ config \in ClockConfigs
    /\ locations = Locations(config)
    /\ people = setupPeople(config)
    /\ servos = setupServos(config)
    /\ state_db = EmptyDB
    /\ storeFault = "none"
    /\ now = 1
    /\ proc = "stopped"
    /\ last = [op |-> "none"]
    /\ lastHandled = setupServos(config)
    /\ allPersisted = TRUE
    /\ broker = NoBroker
    /\ inflight = NoMessage

\* main calls Clock.loop while Clock.running
ClockLoop ==
    /\ proc = "running"
    /\ inflight = NoMessage
    /\ \E net \in NetEvents, ok1 \in BOOLEAN, ok2 \in BOOLEAN :
          /\ broker' = loop(broker, net, ok1, ok2)
          /\ Len(broker'.waits) <= MaxFailures
          /\ last' = [op |-> "loop", net |-> net, pre |-> broker]
    /\ UNCHANGED <<config, locations, people, servos, state_db, storeFault,
                   now, proc, lastHandled, allPersisted, inflight>>

\* SIGHUP is delivered: the handler runs between two instructions of the
\* main thread.  An exception of setStateFromDB leaves the handler and ends
\* the process.
HupHandler ==
    /\ proc = "running"
    /\ \E order \in RowOrders(Len(SelectLocations(state_db, storeFault).rows)),
          sync \in BOOLEAN :
          LET r == setStateFromDB(setupPeople(config), setupServos(config),
                                  state_db, storeFault, order)
          IN  /\ broker' = hupHandler(broker, sync)
              /\ locations' = Locations(config)
              /\ people' = setupPeople(config)
              /\ servos' = r.servos
              /\ state_db' = r.db
              /\ proc' = IF r.exc = "none" THEN "running" ELSE "crashed"
              /\ last' = [op |-> "hupHandler", exc |-> r.exc,
                          pre |-> broker]
    /\ UNCHANGED <<config, storeFault, now, lastHandled, allPersisted,
                   inflight>>

NextConn == Startup \/ ClockLoop \/ HupHandler

SpecConn == InitConn /\ [][NextConn]_vars

\* the calls named c that the last handler made
CallsOf(c) == SelectSeq(broker.calls, LAMBDA e : e.call = c)

\* the last step was a Clock.loop in which the client reported CONNACK
ConnectReported ==
    /\ last.op = "loop"
    /\ last.net = "connack"
    /\ last.pre.link = "connecting"

\* C11: every call of onBrokerConnect leaves broker_connected set and has
\* sent the subscription on the connection just made, and broker_connected
\* is never set while no subscription was sent on the present connection.
C11_ConnectedIsSubscribed ==
    /\ broker.connected => broker.subscribed
    /\ ConnectReported =>
          /\ broker.connected
          /\ broker.subscribed
          /\ Len(CallsOf("subscribe")) = 1

\* onBrokerConnect has run on a connection made by a reconnect
C11_Witness ==
    /\ ConnectReported
    /\ last.pre.recovered
    /\ ~last.pre.connected
    /\ broker.connected
    /\ broker.subscribed

\* the i-th interval of the backoff: the minimum, doubled i - 1 times, but
\* no more than the maximum
Backoff(i) ==
    Min(max_reconnect_interval, min_reconnect_interval * 2 ^ (i - 1))

\* C12: the intervals Clock.loop sleeps after failed reconnects, from the
\* minimum of 1 on, are 1, 2, 4, 8, 16, 32, 64, 120, 120, ...: each the
\* double of the one before, capped at the maximum of 120; and
\* reconnect_interval always lies between the minimum and the maximum.
C12_BackoffDoublesToCap ==
    /\ min_reconnect_interval <= broker.reconnect_interval
    /\ broker.reconnect_interval <= max_reconnect_interval
    /\ \A i \in 1..Len(broker.waits) : broker.waits[i] = Backoff(i)
    /\ broker.reconnect_interval = Backoff(Len(broker.waits) + 1)

\* nine reconnects in a row have failed, the interval has reached the cap
C12_Witness ==
    /\ last.op = "loop"
    /\ broker.waits = <<1, 2, 4, 8, 16, 32, 64, 120, 120>>
    /\ broker.reconnect_interval = max_reconnect_interval

\* C13: a successful reconnect resets the interval to the minimum at once:
\* the first reconnect that fails after a reconnect has succeeded is
\* followed by a sleep of the minimum interval, not of an interval that
\* earlier failures have left.
C13_ResetOnReconnect ==
    \A i \in 1..(Len(broker.calls) - 1) :
        ( /\ broker.calls[i].call = "reconnect"
          /\ ~broker.calls[i].ok
          /\ broker.calls[i].recovered
          /\ broker.calls[i + 1].call = "sleep" ) =>
            broker.calls[i + 1].secs = min_reconnect_interval

\* the last step was a reload
Reloaded == last.op = "hupHandler"

Then(i, c) == i < Len(broker.calls) /\ broker.calls[i + 1].call = c

C17_BackoffBetweenAttempts ==
    \A i \in 1..Len(broker.calls) :
        broker.calls[i].call = "reconnect" => ~broker.calls[i].unwaited

----------------------------------------------------------------------------
(* SpecReload: SIGHUP while a message is handled.  signal.signal installs *)
(* hupHandler as a Python signal handler: it runs in the main thread      *)
(* between two instructions of whatever the thread is executing, the body *)
(* of onBrokerMessage included.  onBrokerMessage is therefore taken in    *)
(* the steps between which the registries may be replaced: findPerson,    *)
(* getLoc, setLoc, saveState.                                             *)

\* the configuration file before and after an edit: the zone found by "h"
\* is home at 120 or work at 150, and Alice's servo is 0 or 1
ReloadConfigs ==
    {Config([k \in {<<1>>} |-> [label |-> z.label, pattern |-> <<"h">>,
                                angle |-> z.angle]],
            [k \in {<<1>>} |-> [name |-> PersonName(k), username |-> <<"a">>,
                                deviceid |-> <<"p">>, servo |-> z.servo]]) :
        z \in {[label |-> "home", angle |-> 120, servo |-> 0],
               [label |-> "work", angle |-> 150, servo |-> 1]}}

ReloadIdents == {<<"a", "/", "p">>, <<"b", "/", "q">>}

ReloadDocs ==
    [_type : {"transition", "lwt"}, event : {"enter", "leave"},
     desc : {<<"h">>}]

InitReload ==
    /\ config \in ReloadConfigs
    /\ locations = Locations(config)
    /\ people = setupPeople(config)
    /\ servos = setupServos(config)
    /\ state_db = EmptyDB
    /\ storeFault = "none"
    /\ now = 1
    /\ proc = "stopped"
    /\ last = [op |-> "none"]
    /\ lastHandled = setupServos(config)
    /\ allPersisted = TRUE
    /\ broker = NoBroker
    /\ inflight = NoMessage

\* the configuration file is edited
EditConfig ==
    /\ \E c \in ReloadConfigs \ {config} : config' = c
    /\ last' = [op |-> "edit"]
    /\ UNCHANGED <<locations, people, servos, state_db, storeFault, now, proc,
                   lastHandled, allPersisted, broker, inflight>>

\* onBrokerMessage, up to the return of findPerson
MsgFind ==
    /\ proc = "running"
    /\ inflight = NoMessage
    /\ now <= MaxEvents
    /\ \E ident \in ReloadIdents, event \in ReloadDocs :
          LET person == findPerson(people, ident)
          IN  /\ inflight' = IF event._type # "transition" \/ person = NoPerson
                             THEN NoMessage
                             ELSE [pc |-> "found", ident |-> ident,
                                   event |-> event, person |-> person,
                                   loc |-> NoLocation]
              /\ last' = [op |-> "handling", at |-> "findPerson"]
    /\ UNCHANGED <<config, locations, people, servos, state_db, storeFault,
                   now, proc, lastHandled, allPersisted, broker>>

\* loc = self.locations.getLoc(event)
MsgResolve ==
    /\ proc = "running"
    /\ inflight.pc = "found"
    /\ LET got == getLoc(locations, inflight.event)
       IN  /\ inflight' = IF got.exc = "none"
                          THEN [inflight EXCEPT !.pc = "resolved",
                                                !.loc = got.loc]
                          ELSE NoMessage
           /\ proc' = IF got.exc = "none" THEN "running" ELSE "crashed"
    /\ last' = [op |-> "handling", at |-> "getLoc"]
    /\ UNCHANGED <<config, locations, people, servos, state_db, storeFault,
                   now, lastHandled, allPersisted, broker>>

\* self.setLoc(person, loc)
MsgSetLoc ==
    /\ proc = "running"
    /\ inflight.pc = "resolved"
    /\ servos' = setLoc(servos, inflight.person, inflight.loc)
    /\ inflight' = [inflight EXCEPT !.pc = "set"]
    /\ last' = [op |-> "handling", at |-> "setLoc"]
    /\ UNCHANGED <<config, locations, people, state_db, storeFault, now, proc,
                   lastHandled, allPersisted, broker>>

\* self.saveState(ident, loc.name, loc.angle), and the handler returns
MsgSave ==
    /\ proc = "running"
    /\ inflight.pc = "set"
    /\ LET r == saveState(state_db, storeFault, inflight.ident,
                          inflight.loc.name, inflight.loc.angle, now)
       IN  /\ state_db' = r.db
           /\ allPersisted' = (allPersisted /\ r.saved)
           /\ last' = [op |-> "handled", ident |-> inflight.ident,
                       event |-> inflight.event, person |-> inflight.person,
                       loc |-> inflight.loc, saved |-> r.saved]
    /\ now' = now + 1
    /\ inflight' = NoMessage
    /\ lastHandled' = [lastHandled EXCEPT
                          ![inflight.person.servo] = inflight.loc.angle]
    /\ UNCHANGED <<config, locations, people, servos, storeFault, proc,
                   broker>>

NextReload ==
    Startup \/ EditConfig \/ HupHandler \/ MsgFind \/ MsgResolve \/ MsgSetLoc
        \/ MsgSave

SpecReload == InitReload /\ [][NextReload]_vars

\* the person and the zone that onBrokerMessage finds for the message when
\* all of it runs under the registries built from the configuration c
Under(c, ident, event) ==
    [person |-> findPerson(setupPeople(c), ident),
     loc |-> getLoc(Locations(c), event).loc]

\* C15: a message is handled under one configuration, whenever the reload
\* signal arrives: the person whose servo was moved and the zone it was
\* moved to are those of one and the same configuration, never the person
\* of one and the zone of another.
C15_SingleSnapshot ==
    last.op = "handled" =>
        \E c \in ReloadConfigs :
            /\ last.person = Under(c, last.ident, last.event).person
            /\ last.loc = Under(c, last.ident, last.event).loc
====
